---- MODULE Spec2Model ----
(***************************************************************************)
(* A model of beardedtim/lazy: the Producer push-to-pull bridge            *)
(* (src/src/producer.js) with the async generators that consume it, and    *)
(* the operators of src/unnamed/part_000 (operators.js) as generator state *)
(* machines over range() sources.                                          *)
(***************************************************************************)
EXTENDS Integers, Sequences, FiniteSets, TLC

(* ------------------------------ bounds --------------------------------- *)
\* how many times the producer side calls next(v)
MaxNext == 3
\* how many times the producer side calls complete() / error(err) in total
MaxEndCalls == 2
\* how many iterations of the one Producer are started
NumConsumers == 2

\* the largest `end` of a finite range(start, end) source
MaxEnd == 3
\* the largest count given to take(num, iter)
MaxTake == 3
\* how many values the consumer of an operator asks for before it stops asking
MaxPulls == 6

Consumers == 1..NumConsumers
\* the values error(err) is called with
Errors == {"e1", "e2"}
NoErr == "none"

VARIABLES
  promises,   \* every Promise the Producer has created, in creation order
  prom,       \* producer.js `prom`: the Promise the generator loop yields
  resolve,    \* producer.js `resolve`: the Promise this handle settles
  reject,     \* producer.js `reject`: the Promise this handle settles
  iterating,  \* producer.js `iterating`
  gen,        \* per iteration: the async generator of producer.js:21-25
  delivered,  \* per iteration: the values the consumer received, in order
  thrown,     \* per iteration: the errors the iteration threw, in order
  nextCalls,  \* history: number of next() calls so far; the k-th passes k
  endCalls,   \* history: number of complete()/error() calls so far
  completeAt, \* history: nextCalls at the first complete(), -1 before it
  errorAt,    \* history: nextCalls at the first error(), -1 before it
  errAt,      \* history, per iteration: err of the first error(err) called
              \* while that iteration's pull was waiting on an unsettled
              \* promise, NoErr before it
  pullAt,     \* history, per iteration: nextCalls when its latest pull began
  pullEnds,   \* history, per iteration: endCalls when its latest pull began
  heard,      \* history: heard[k] is the set of iterations whose pull was
              \* waiting on the unsettled promise in `prom` when the k-th
              \* next() was called
  op,         \* the operator whose Lazy is being iterated, with its arguments
  genA,       \* merge `genA`; the iterator of `iter` in take / skipWhile / skipUntil
  genB,       \* merge `genB`
  nodeA,      \* merge `nodeA`; the pending iterator result of the for await loops
  nodeB,      \* merge `nodeB`
  opPc,       \* where the operator's async generator is suspended
  remaining,  \* take `remaining`
  hasSkipped, \* skipWhile / skipUntil `hasSkipped`
  v,          \* the loop variable `v` of the for await loops
  out,        \* the values the operator's generator has yielded, in order
  pullsA,     \* history: number of next() calls made on genA
  pullsB,     \* history: number of next() calls made on genB
  pulls,      \* history: number of next() calls the consumer made on the operator
  firstSettled, \* history: which of merge's two pending nodes settled first
               \* in the current step: "A", "B", or "none" so far
  pipe,       \* a pipeline: the operators given to compose, the range they are
              \* applied to, and the terminal operator that consumes the result
  stg,        \* per operator of the pipeline, innermost first: the locals and
              \* the suspension point of its async generator
  src,        \* the pipeline's source iterator
  ctl,        \* where the pipeline's single thread of control is: a next()
              \* call travelling down ("req") or its result travelling up
              \* ("res"), at level 0 (source) .. Len(stg) + 1 (terminal)
  pout,       \* the values the terminal operator received, in order
  result,     \* the Promise the terminal operator returned
  futures,    \* the futures forEach's fn returned, in call order
  calls,      \* history: the calls of the functions given to the operators
  reqs,       \* history: reqs[k] counts the next() calls made on level k - 1
  srcThrew,   \* history: the error the source threw, NoErr before it
  lazy,       \* a Lazy: the arguments of the range(start, end) that made it
  heap,       \* the iterators that the Lazy's generator function returned
  seen,       \* history: per iterator, the values its next() returned
  asked,      \* history: the number of [Symbol.asyncIterator]() calls
  mrg,        \* the generator of merge(fn, lazy, lazy): its genA, genB,
              \* nodeA, nodeB and its suspension point
  mout,       \* the values that generator yielded
  built,      \* whether fromEvent(event, target) has been called
  listeners,  \* the listeners of `event` on target, in registration order:
              \* each is the `next` of the Producer with that number
  prods,      \* the Producers created so far, each with its promises and
              \* the closure variables prom, resolve, reject, iterating
  evIt,       \* per iteration of the fromEvent Lazy: its suspension point,
              \* its Producer, the promise it awaits, the values it got
  emitted,    \* history: the number of events emitted on target
  firstPullAt \* history, per iteration: emitted when its first pull began

producerVars == <<promises, prom, resolve, reject, iterating>>
consumerVars == <<gen, delivered, thrown>>
historyVars == <<nextCalls, endCalls, completeAt, errorAt, errAt, pullAt, pullEnds,
                 heard>>
opVars == <<op, genA, genB, nodeA, nodeB, opPc, remaining, hasSkipped, v, out,
            pullsA, pullsB, pulls, firstSettled>>
pipeVars == <<pipe, stg, src, ctl, pout, result, futures, calls, reqs, srcThrew>>
lazyVars == <<lazy, heap, seen, asked, mrg, mout>>
eventVars == <<built, listeners, prods, evIt, emitted, firstPullAt>>
vars == <<producerVars, consumerVars, historyVars, opVars, pipeVars, lazyVars, eventVars>>

(* ------------------------------ promises ------------------------------- *)
Pending == [st |-> "pending", val |-> 0, err |-> NoErr]
Fulfilled(value) == [st |-> "fulfilled", val |-> value, err |-> NoErr]
Rejected(e) == [st |-> "rejected", val |-> 0, err |-> e]

\* res(v) / rej(e) of a Promise executor: settles the promise the handle
\* belongs to; a no-op when that promise is already settled
Settle(ps, handle, outcome) ==
  IF ps[handle].st = "pending" THEN [ps EXCEPT ![handle] = outcome] ELSE ps

(* ------------------------------ Producer ------------------------------- *)
\* constructor: one pending Promise, both handles on it, iterating = true
ProducerInit ==
  /\ promises = <<Pending>>
  /\ prom = 1
  /\ resolve = 1
  /\ reject = 1
  /\ iterating = TRUE

\* next() as it would be if it also switched the bridge back on
next_reactivates(value) ==
  /\ promises' = Append(Settle(promises, resolve, Fulfilled(value)), Pending)
  /\ prom' = Len(promises) + 1
  /\ resolve' = Len(promises) + 1
  /\ iterating' = TRUE
  /\ UNCHANGED reject

\* next() as it would be if the slot kept the last value for a late consumer
\* (prom = Promise.resolve(v))
next_keepsLast(value) ==
  /\ promises' = Append(Settle(promises, resolve, Fulfilled(value)), Fulfilled(value))
  /\ prom' = Len(promises) + 1
  /\ resolve' = Len(promises) + 1
  /\ UNCHANGED <<reject, iterating>>

\* next() as it would be if it forgot to rebind `resolve`, as it does `reject`
next_staleResolve(value) ==
  /\ promises' = Append(Settle(promises, resolve, Fulfilled(value)), Pending)
  /\ prom' = Len(promises) + 1
  /\ UNCHANGED <<resolve, reject, iterating>>

\* this.next = v => { resolve(v); prom = new Promise((res, rej) => { resolve = res; }); }
next(value) ==
  /\ promises' = Append(Settle(promises, resolve, Fulfilled(value)), Pending)
  /\ prom' = Len(promises) + 1
  /\ resolve' = Len(promises) + 1
  /\ UNCHANGED <<reject, iterating>>

\* complete() as it would be if it also resolved the pending future
complete_settles ==
  /\ promises' = Settle(promises, resolve, Fulfilled(0))
  /\ iterating' = FALSE
  /\ UNCHANGED <<prom, resolve, reject>>

\* this.complete = () => (iterating = false)
complete ==
  /\ iterating' = FALSE
  /\ UNCHANGED <<promises, prom, resolve, reject>>

\* this.error = err => { reject(err); iterating = false; }
error(err) ==
  /\ promises' = Settle(promises, reject, Rejected(err))
  /\ iterating' = FALSE
  /\ UNCHANGED <<prom, resolve, reject>>

(* --------------------- the generator of a Producer --------------------- *)
\* async function*() { while (iterating) { yield prom; } }
\* pc: "start" (created, never pulled), "await" (inside `yield prom`, awaiting
\* the promise read from `prom`), "yielded" (suspended at the yield, value
\* handed to the consumer), "done" (returned), "thrown" (ended by a throw)
GenInit == [pc |-> "start", awaiting |-> 0]

\* the consumer's next() on the generator: the body runs synchronously up to
\* the await inside `yield prom`, or returns when `iterating` is false
genPull(g) ==
  IF iterating THEN [pc |-> "await", awaiting |-> prom]
               ELSE [pc |-> "done", awaiting |-> 0]

PullInFlight(c) == gen[c].pc = "await"
\* a pull in flight on a promise that nothing has settled yet
PullPending(c) == PullInFlight(c) /\ promises[gen[c].awaiting].st = "pending"

(* ------------------------------ actions -------------------------------- *)
Next_next ==
  /\ nextCalls < MaxNext
  /\ next(nextCalls + 1)
  /\ nextCalls' = nextCalls + 1
  /\ heard' = Append(heard, {c \in Consumers : PullPending(c) /\ gen[c].awaiting = prom})
  /\ UNCHANGED <<consumerVars, endCalls, completeAt, errorAt, errAt, pullAt, pullEnds>>
  /\ UNCHANGED <<opVars, pipeVars, lazyVars, eventVars>>

Next_complete ==
  /\ endCalls < MaxEndCalls
  /\ complete
  /\ endCalls' = endCalls + 1
  /\ completeAt' = IF completeAt = -1 THEN nextCalls ELSE completeAt
  /\ UNCHANGED <<consumerVars, nextCalls, errorAt, errAt, pullAt, pullEnds, heard>>
  /\ UNCHANGED <<opVars, pipeVars, lazyVars, eventVars>>

Next_error ==
  /\ endCalls < MaxEndCalls
  /\ \E err \in Errors :
       /\ error(err)
       /\ errAt' = [c \in Consumers |->
                      IF errAt[c] = NoErr /\ PullPending(c) THEN err ELSE errAt[c]]
  /\ endCalls' = endCalls + 1
  /\ errorAt' = IF errorAt = -1 THEN nextCalls ELSE errorAt
  /\ UNCHANGED <<consumerVars, nextCalls, completeAt, pullAt, pullEnds, heard>>
  /\ UNCHANGED <<opVars, pipeVars, lazyVars, eventVars>>

\* the consumer (a for await loop, or a manual next()) asks for a value
Pull(c) ==
  /\ gen[c].pc \in {"start", "yielded"}
  /\ gen' = [gen EXCEPT ![c] = genPull(gen[c])]
  /\ pullAt' = [pullAt EXCEPT ![c] = nextCalls]
  /\ pullEnds' = [pullEnds EXCEPT ![c] = endCalls]
  /\ UNCHANGED <<producerVars, delivered, thrown, nextCalls, endCalls,
                 completeAt, errorAt, errAt, heard>>
  /\ UNCHANGED <<opVars, pipeVars, lazyVars, eventVars>>

\* the awaited promise has settled: the generator yields its value to the
\* consumer, or the rejection is thrown out of the generator
Resume(c) ==
  /\ gen[c].pc = "await"
  /\ LET p == promises[gen[c].awaiting] IN
       /\ p.st # "pending"
       /\ IF p.st = "fulfilled"
            THEN /\ gen' = [gen EXCEPT ![c] = [pc |-> "yielded", awaiting |-> 0]]
                 /\ delivered' = [delivered EXCEPT ![c] = Append(@, p.val)]
                 /\ UNCHANGED thrown
            ELSE /\ gen' = [gen EXCEPT ![c] = [pc |-> "thrown", awaiting |-> 0]]
                 /\ thrown' = [thrown EXCEPT ![c] = Append(@, p.err)]
                 /\ UNCHANGED delivered
  /\ UNCHANGED <<producerVars, historyVars>>
  /\ UNCHANGED <<opVars, pipeVars, lazyVars, eventVars>>

ConsumersInit ==
  /\ gen = [c \in Consumers |-> GenInit]
  /\ delivered = [c \in Consumers |-> <<>>]
  /\ thrown = [c \in Consumers |-> <<>>]
  /\ nextCalls = 0
  /\ endCalls = 0
  /\ completeAt = -1
  /\ errorAt = -1
  /\ errAt = [c \in Consumers |-> NoErr]
  /\ pullAt = [c \in Consumers |-> -1]
  /\ pullEnds = [c \in Consumers |-> -1]
  /\ heard = <<>>

(* ------------------------------ sources -------------------------------- *)
\* range(start, end = Infinity, mapper = a => a): `end` of an unbounded range
Infinity == -1
\* the JavaScript value undefined (every value a source yields is >= 0)
Undefined == -2

\* `i <= end` of range's loop
Leq(i, end) == end = Infinity \/ i <= end

\* an iterator over range(start, end); `async` tells that the range is wrapped
\* in map(mapFn, range(start, end)), whose iterator is an async generator
RangeGen(start, end, async) ==
  [i |-> start, end |-> end, closed |-> FALSE, async |-> async]
NoGen == [i |-> 0, end |-> 0, closed |-> TRUE, async |-> FALSE]

\* the function given to map: README.md's n => n * 2
mapFn(n) == n * 2

\* what next() on the iterator returns: an iterator result for a generator
\* (function*), a Promise of an iterator result for an async generator
\* (async function*); value/done are the (eventual) result, and `settled`
\* tells whether it is there yet (a Promise starts unsettled)
NoNode == [isPromise |-> FALSE, value |-> Undefined, done |-> FALSE, settled |-> TRUE]
genNode(g) ==
  IF ~g.closed /\ Leq(g.i, g.end)
    THEN [isPromise |-> g.async,
          value |-> IF g.async THEN mapFn(g.i) ELSE g.i,
          done |-> FALSE,
          settled |-> ~g.async]
    ELSE [isPromise |-> g.async, value |-> Undefined, done |-> TRUE,
          settled |-> ~g.async]
\* the iterator after that next(): `yield mapper(i++)`, or finished
genAfter(g) ==
  IF ~g.closed /\ Leq(g.i, g.end) THEN [g EXCEPT !.i = @ + 1]
                                  ELSE [g EXCEPT !.closed = TRUE]
\* iterator.return(), which for await calls on break
genReturn(g) == [g EXCEPT !.closed = TRUE]

\* the length of the sequence an iterator in its start state produces
SrcLen(start, end) == IF end < start THEN 0 ELSE end - start + 1

(* ------------------------------ operators ------------------------------ *)
\* opPc: "start" (generator created, never pulled), "await" (next() called on
\* the upstream iterator(s), result awaited), "yielded" (suspended at the
\* loop's last yield), "yieldedFlag" (suspended at the yield guarded by
\* hasSkipped), "awaitB" (merge: nodeA awaited, awaiting nodeB), "done"
\* (returned)
NoOp == [kind |-> "none", num |-> 0, pred |-> {}, start |-> 0, end |-> 0]
OpIdle ==
  /\ op = NoOp
  /\ genA = NoGen
  /\ genB = NoGen
  /\ nodeA = NoNode
  /\ nodeB = NoNode
  /\ opPc = "done"
  /\ remaining = 0
  /\ hasSkipped = FALSE
  /\ v = Undefined
  /\ out = <<>>
  /\ pullsA = 0
  /\ pullsB = 0
  /\ pulls = 0
  /\ firstSettled = "none"

\* the for await loop asks the upstream iterator for its next value
RequestA ==
  /\ nodeA' = genNode(genA)
  /\ genA' = genAfter(genA)
  /\ pullsA' = pullsA + 1
  /\ opPc' = "await"

\* JavaScript truthiness of a number: `!remaining` holds exactly for 0
Truthy(n) == n # 0

\* ---- take (part_000:43-56)
\* the test as it would be if it read `remaining < 0`
takeYields_late(rem) == rem >= 0

\* what the loop body does with a value: TRUE to yield it, FALSE to break
takeYields(rem) == Truthy(rem)

\* the consumer calls next(): `let remaining = num` and the first upstream
\* request, or `remaining--` after the yield and the next upstream request
take_pull ==
  /\ op.kind = "take"
  /\ opPc \in {"start", "yielded"}
  /\ pulls < MaxPulls
  /\ remaining' = IF opPc = "start" THEN op.num ELSE remaining - 1
  /\ RequestA
  /\ pulls' = pulls + 1
  /\ UNCHANGED <<op, genB, nodeB, hasSkipped, v, out, pullsB, firstSettled>>
  /\ UNCHANGED <<producerVars, consumerVars, historyVars, pipeVars, lazyVars, eventVars>>

\* the upstream result arrived: end of loop, break, or yield v
take_step ==
  /\ op.kind = "take"
  /\ opPc = "await"
  /\ IF nodeA.done
       THEN /\ opPc' = "done"
            /\ UNCHANGED <<genA, v, out>>
       ELSE /\ v' = nodeA.value
            /\ IF takeYields(remaining)
                 THEN /\ out' = Append(out, nodeA.value)
                      /\ opPc' = "yielded"
                      /\ UNCHANGED genA
                 ELSE /\ genA' = genReturn(genA)
                      /\ opPc' = "done"
                      /\ UNCHANGED out
  /\ UNCHANGED <<op, genB, nodeA, nodeB, remaining, hasSkipped, pullsA, pullsB, pulls,
                 firstSettled>>
  /\ UNCHANGED <<producerVars, consumerVars, historyVars, pipeVars, lazyVars, eventVars>>

\* ---- skipWhile (part_000:332-349) and skipUntil (part_000:361-378)
\* skipUntil as it would be with skipWhile's test copied unchanged
skipContinues_copied(kind, pred, value) == value \in pred

\* `if (pred(v)) continue` of skipWhile, `if (!pred(v)) continue` of skipUntil
skipContinues(kind, pred, value) ==
  IF kind = "skipWhile" THEN value \in pred ELSE value \notin pred

\* the rest of the loop body as it would be without `hasSkipped = true`
skipRest_noFlag ==
  IF skipContinues(op.kind, op.pred, v')
    THEN /\ RequestA
         /\ UNCHANGED <<hasSkipped, out>>
    ELSE /\ out' = Append(out, v')
         /\ opPc' = "yielded"
         /\ UNCHANGED <<genA, nodeA, pullsA, hasSkipped>>

\* the part of the loop body after the `if (hasSkipped) yield v` statement
skipRest ==
  IF skipContinues(op.kind, op.pred, v')
    THEN /\ RequestA
         /\ UNCHANGED <<hasSkipped, out>>
    ELSE /\ hasSkipped' = TRUE
         /\ out' = Append(out, v')
         /\ opPc' = "yielded"
         /\ UNCHANGED <<genA, nodeA, pullsA>>

\* the consumer calls next(): the loop starts, or resumes after one of its
\* two yields
skip_pull ==
  /\ op.kind \in {"skipWhile", "skipUntil"}
  /\ opPc \in {"start", "yielded", "yieldedFlag"}
  /\ pulls < MaxPulls
  /\ pulls' = pulls + 1
  /\ v' = v
  /\ IF opPc = "yieldedFlag"
       THEN skipRest
       ELSE /\ RequestA
            /\ hasSkipped' = IF opPc = "start" THEN FALSE ELSE hasSkipped
            /\ UNCHANGED out
  /\ UNCHANGED <<op, genB, nodeB, remaining, pullsB, firstSettled>>
  /\ UNCHANGED <<producerVars, consumerVars, historyVars, pipeVars, lazyVars, eventVars>>

\* the upstream result arrived: end of loop, or the loop body runs up to its
\* first yield or its next upstream request
skip_step ==
  /\ op.kind \in {"skipWhile", "skipUntil"}
  /\ opPc = "await"
  /\ IF nodeA.done
       THEN /\ opPc' = "done"
            /\ UNCHANGED <<genA, nodeA, v, out, hasSkipped, pullsA>>
       ELSE /\ v' = nodeA.value
            /\ IF hasSkipped
                 THEN /\ out' = Append(out, nodeA.value)
                      /\ opPc' = "yieldedFlag"
                      /\ UNCHANGED <<genA, nodeA, hasSkipped, pullsA>>
                 ELSE skipRest
  /\ UNCHANGED <<op, genB, nodeB, remaining, pullsB, pulls, firstSettled>>
  /\ UNCHANGED <<producerVars, consumerVars, historyVars, pipeVars, lazyVars, eventVars>>

\* ---- merge (part_000:168-190)
\* `nodeA.done` as merge reads it, on whatever genA.next() returned: a Promise
\* has no `done` property
nodeDone(node) == IF node.isPromise THEN FALSE ELSE node.done

\* the loop test as it would be if merge stopped when either branch is done
mergeContinues_both(na, nb) == ~nodeDone(na) /\ ~nodeDone(nb)

\* `while (!nodeA.done)`
mergeContinues(na, nb) == ~nodeDone(na)

\* the yielded value as it would be if merge paired by arrival
mergeYield_byArrival(na, nb, first) ==
  IF first = "B" THEN <<nb.value, na.value>> ELSE <<na.value, nb.value>>

\* `yield fn(aValue, bValue)` with fn = (a, b) => [a, b]
mergeYield(na, nb, first) == <<na.value, nb.value>>

\* merge as it would be if it advanced B only once A has given a value
merge_pull_checksA ==
  /\ op.kind = "merge"
  /\ opPc \in {"start", "yielded"}
  /\ pulls < MaxPulls
  /\ pulls' = pulls + 1
  /\ nodeA' = genNode(genA)
  /\ genA' = genAfter(genA)
  /\ pullsA' = pullsA + 1
  /\ IF nodeDone(nodeA')
       THEN UNCHANGED <<nodeB, genB, pullsB>>
       ELSE /\ nodeB' = genNode(genB)
            /\ genB' = genAfter(genB)
            /\ pullsB' = pullsB + 1
  /\ opPc' = "await"
  /\ firstSettled' = IF nodeA'.settled THEN "A"
                     ELSE IF nodeB'.settled THEN "B" ELSE "none"
  /\ UNCHANGED <<op, remaining, hasSkipped, v, out>>
  /\ UNCHANGED <<producerVars, consumerVars, historyVars, pipeVars, lazyVars, eventVars>>

\* the consumer calls next(): genA.next() and genB.next(), before the loop on
\* the first call and at the end of the loop body afterwards
merge_pull ==
  /\ op.kind = "merge"
  /\ opPc \in {"start", "yielded"}
  /\ pulls < MaxPulls
  /\ pulls' = pulls + 1
  /\ nodeA' = genNode(genA)
  /\ genA' = genAfter(genA)
  /\ pullsA' = pullsA + 1
  /\ nodeB' = genNode(genB)
  /\ genB' = genAfter(genB)
  /\ pullsB' = pullsB + 1
  /\ opPc' = "await"
  /\ firstSettled' = IF nodeA'.settled THEN "A"
                     ELSE IF nodeB'.settled THEN "B" ELSE "none"
  /\ UNCHANGED <<op, remaining, hasSkipped, v, out>>
  /\ UNCHANGED <<producerVars, consumerVars, historyVars, pipeVars, lazyVars, eventVars>>

\* the async generator behind genA (map, part_000:76-83) settles the Promise
\* its next() returned
settle_A ==
  /\ op.kind = "merge"
  /\ ~nodeA.settled
  /\ nodeA' = [nodeA EXCEPT !.settled = TRUE]
  /\ firstSettled' = IF firstSettled = "none" THEN "A" ELSE firstSettled
  /\ UNCHANGED <<op, genA, genB, nodeB, opPc, remaining, hasSkipped, v, out,
                 pullsA, pullsB, pulls>>
  /\ UNCHANGED <<producerVars, consumerVars, historyVars, pipeVars, lazyVars, eventVars>>

\* the same for genB
settle_B ==
  /\ op.kind = "merge"
  /\ ~nodeB.settled
  /\ nodeB' = [nodeB EXCEPT !.settled = TRUE]
  /\ firstSettled' = IF firstSettled = "none" THEN "B" ELSE firstSettled
  /\ UNCHANGED <<op, genA, genB, nodeA, opPc, remaining, hasSkipped, v, out,
                 pullsA, pullsB, pulls>>
  /\ UNCHANGED <<producerVars, consumerVars, historyVars, pipeVars, lazyVars, eventVars>>

\* the loop test, then `await nodeA`
merge_step ==
  /\ op.kind = "merge"
  /\ opPc = "await"
  /\ IF mergeContinues(nodeA, nodeB)
       THEN /\ nodeA.settled
            /\ opPc' = "awaitB"
       ELSE opPc' = "done"
  /\ UNCHANGED <<op, genA, genB, nodeA, nodeB, remaining, hasSkipped, v, out,
                 pullsA, pullsB, pulls, firstSettled>>
  /\ UNCHANGED <<producerVars, consumerVars, historyVars, pipeVars, lazyVars, eventVars>>

\* merge as it would be if it yielded without `await nodeB`
merge_yield_noAwait ==
  /\ op.kind = "merge"
  /\ opPc = "awaitB"
  /\ out' = Append(out, mergeYield(nodeA, nodeB, firstSettled))
  /\ opPc' = "yielded"
  /\ UNCHANGED <<op, genA, genB, nodeA, nodeB, remaining, hasSkipped, v,
                 pullsA, pullsB, pulls, firstSettled>>
  /\ UNCHANGED <<producerVars, consumerVars, historyVars, pipeVars, lazyVars, eventVars>>

\* `await nodeB`, then the yield
merge_yield ==
  /\ op.kind = "merge"
  /\ opPc = "awaitB"
  /\ nodeB.settled
  /\ out' = Append(out, mergeYield(nodeA, nodeB, firstSettled))
  /\ opPc' = "yielded"
  /\ UNCHANGED <<op, genA, genB, nodeA, nodeB, remaining, hasSkipped, v,
                 pullsA, pullsB, pulls, firstSettled>>
  /\ UNCHANGED <<producerVars, consumerVars, historyVars, pipeVars, lazyVars, eventVars>>

\* the ranges that are iterated
Starts == {0, 1}
Ends == 0..MaxEnd

\* no Lazy is iterated
NoMerge == [pc |-> "none", a |-> 0, b |-> 0, na |-> NoNode, nb |-> NoNode]

LazyIdle ==
  /\ lazy = [start |-> 0, end |-> 0]
  /\ heap = <<>>
  /\ seen = <<>>
  /\ asked = 0
  /\ mrg = NoMerge
  /\ mout = <<>>

\* how many iterations of the fromEvent Lazy are started, and how many
\* events are emitted
MaxEvIters == 2
MaxEmit == 3
EvIters == 1..MaxEvIters

\* an iteration that nobody has asked for yet
NoIter == [pc |-> "none", prod |-> 0, awaiting |-> 0, got |-> <<>>]

\* no fromEvent Lazy exists
EventIdle ==
  /\ built = FALSE
  /\ listeners = <<>>
  /\ prods = <<>>
  /\ evIt = [i \in EvIters |-> NoIter]
  /\ emitted = 0
  /\ firstPullAt = [i \in EvIters |-> -1]

(* ------------------------------ pipelines ------------------------------ *)
\* An iterator result as the consumer of a next() call gets it: a value, the
\* end of the sequence, or the rejection of the call.
Val(x) == [value |-> x, done |-> FALSE, err |-> NoErr]
Done == [value |-> Undefined, done |-> TRUE, err |-> NoErr]
Err(e) == [value |-> Undefined, done |-> FALSE, err |-> e]

\* how far an unbounded range is followed
SrcCap == MaxEnd + 2

\* the functions given to map: n => n * 2 (README.md) and n => n + 1
Fns == {"double", "succ"}
ApplyFn(f, n) == IF f = "double" THEN mapFn(n) ELSE n + 1

\* the function given to flatMap: n => range(1, n)
flatFn(n) == [i |-> 1, end |-> n, active |-> TRUE]
NoInner == [i |-> 0, end |-> 0, active |-> FALSE]

\* an operator applied with its leading arguments (curry, part_000:17-20)
Method(kind, num, pred, fn) == [kind |-> kind, num |-> num, pred |-> pred, fn |-> fn]

\* compose as it would be with reduce: the leftmost method applied first
compose_leftFirst(methods) == methods

\* compose (part_000:14-15): methods.reduceRight applies the rightmost method
\* to the iterable first, so it becomes the innermost operator; the result
\* lists the operators innermost first
compose(methods) == [k \in 1..Len(methods) |-> methods[Len(methods) + 1 - k]]

\* the locals of an operator's generator before its first next()
StageInit == [pc |-> "start", remaining |-> 0, inner |-> NoInner]

\* What an operator's generator does when it is resumed, as a record: ls its
\* locals afterwards, go "down" (next() on its upstream) or "up" (a result
\* for its consumer), node that result, call the user function calls made,
\* brk whether it left its for await loop by break.
Step(ls, go, node, call, brk) ==
  [ls |-> ls, go |-> go, node |-> node, call |-> call, brk |-> brk]
Down(ls, call) == Step(ls, "down", Done, call, FALSE)
Yield(ls, x, call) == Step([ls EXCEPT !.pc = "yielded"], "up", Val(x), call, FALSE)
Break(ls, call) == Step([ls EXCEPT !.pc = "done"], "up", Done, call, TRUE)

\* ---- resumed by the consumer's next()
\* map, filter, tap, takeWhile, takeUntil: the for await loop asks for the
\* next upstream value
loopRequest(d, ls) == Down(ls, <<>>)

\* take (part_000:46-53): `let remaining = num` / `remaining--`
takeRequest(d, ls) ==
  Down([ls EXCEPT !.remaining = IF ls.pc = "start" THEN d.num ELSE @ - 1], <<>>)

\* skip (part_000:146-147): `let remaning = num`
skipRequest(d, ls) ==
  Down([ls EXCEPT !.remaining = IF ls.pc = "start" THEN d.num ELSE @], <<>>)

\* `yield* fn(v)` (part_000:113): the next value of the sequence fn(v), or,
\* when it is drained, the next upstream request
flatMapDrain(ls) ==
  IF ls.inner.active /\ ls.inner.i <= ls.inner.end
    THEN Yield([ls EXCEPT !.inner.i = @ + 1], ls.inner.i, <<>>)
    ELSE Down([ls EXCEPT !.inner = NoInner], <<>>)

\* flatMap as it would be if a next() abandoned the rest of fn(v)
flatMapRequest_abandons(d, ls) == Down([ls EXCEPT !.inner = NoInner], <<>>)

flatMapRequest(d, ls) == flatMapDrain(ls)

stageRequest(d, ls) ==
  CASE d.kind = "take" -> takeRequest(d, ls)
    [] d.kind = "skip" -> skipRequest(d, ls)
    [] d.kind = "flatMap" -> flatMapRequest(d, ls)
    [] OTHER -> loopRequest(d, ls)

\* ---- resumed with the upstream value x
\* map as it would be if it yielded v instead of fn(v)
mapValue_identity(d, ls, x) == Yield(ls, x, <<<<"map", x>>>>)

\* map (part_000:79-81): yield fn(v)
mapValue(d, ls, x) == Yield(ls, ApplyFn(d.fn, x), <<<<"map", x>>>>)

\* filter (part_000:128-132): if (pred(v)) yield v
filterValue(d, ls, x) ==
  IF x \in d.pred THEN Yield(ls, x, <<<<"filter", x>>>>)
                  ELSE Down(ls, <<<<"filter", x>>>>)

\* tap (part_000:161-164): fn(v); yield v
tapValue(d, ls, x) == Yield(ls, x, <<<<"tap", x>>>>)

\* skip (part_000:147-153): if (remaning) { remaning--; continue } yield v
skipValue(d, ls, x) ==
  IF Truthy(ls.remaining) THEN Down([ls EXCEPT !.remaining = @ - 1], <<>>)
                          ELSE Yield(ls, x, <<>>)

\* take (part_000:47-52): if (!remaining) break; yield v
takeValue(d, ls, x) ==
  IF takeYields(ls.remaining) THEN Yield(ls, x, <<>>) ELSE Break(ls, <<>>)

\* takeWhile as it would be if it yielded the stopping value before it stops
takeWhileValue_inclusive(d, ls, x) ==
  IF x \notin d.pred
    THEN Step([ls EXCEPT !.pc = "done"], "up", Val(x), <<<<"takeWhile", x>>>>, TRUE)
    ELSE Yield(ls, x, <<<<"takeWhile", x>>>>)

\* takeWhile (part_000:286-290): if (!pred(v)) break; yield v
takeWhileValue(d, ls, x) ==
  IF x \notin d.pred THEN Break(ls, <<<<"takeWhile", x>>>>)
                     ELSE Yield(ls, x, <<<<"takeWhile", x>>>>)

\* takeUntil (part_000:265-269): if (pred(v)) break; yield v
takeUntilValue(d, ls, x) ==
  IF x \in d.pred THEN Break(ls, <<<<"takeUntil", x>>>>)
                  ELSE Yield(ls, x, <<<<"takeUntil", x>>>>)

\* flatMap (part_000:112-114): yield* fn(v)
flatMapValue(d, ls, x) ==
  LET r == flatMapDrain([ls EXCEPT !.inner = flatFn(x)])
  IN [r EXCEPT !.call = <<<<"flatMap", x>>>>]

stageValue(d, ls, x) ==
  CASE d.kind = "map" -> mapValue(d, ls, x)
    [] d.kind = "filter" -> filterValue(d, ls, x)
    [] d.kind = "tap" -> tapValue(d, ls, x)
    [] d.kind = "skip" -> skipValue(d, ls, x)
    [] d.kind = "take" -> takeValue(d, ls, x)
    [] d.kind = "takeWhile" -> takeWhileValue(d, ls, x)
    [] d.kind = "takeUntil" -> takeUntilValue(d, ls, x)
    [] d.kind = "flatMap" -> flatMapValue(d, ls, x)

\* an operator as it would be with a try/catch around its loop: an upstream
\* error ends its sequence
stageError_swallows(ls, e) == Step([ls EXCEPT !.pc = "done"], "up", Done, <<>>, FALSE)

\* the upstream next() rejected: no operator has a try/catch, the error is
\* thrown out of its generator and rejects its consumer's pending next()
stageError(ls, e) == Step([ls EXCEPT !.pc = "thrown"], "up", Err(e), <<>>, FALSE)

\* the upstream is exhausted: the for await loop ends and the generator returns
stageDone(ls) == Step([ls EXCEPT !.pc = "done"], "up", Done, <<>>, FALSE)

stageResult(d, ls, node) ==
  IF node.err # NoErr THEN stageError(ls, node.err)
  ELSE IF node.done THEN stageDone(ls)
  ELSE stageValue(d, ls, node.value)

\* ---- the levels of a pipeline
Top == Len(stg) + 1
NoCtl == [at |-> 0, dir |-> "idle", node |-> Done]

\* the generator of the source (part_000:29-34, or a generator function that
\* throws): its p-th next() throws pipe.err when p = pipe.throwAt
srcNode(p) ==
  IF src.closed THEN Done
  ELSE IF pipe.throwAt = p THEN Err(pipe.err)
  ELSE IF Leq(src.i, pipe.end) THEN Val(src.i)
  ELSE Done

src_next ==
  /\ ctl.dir = "req" /\ ctl.at = 0
  /\ src.i <= SrcCap
  /\ LET node == srcNode(reqs[1]) IN
       /\ ctl' = [at |-> 1, dir |-> "res", node |-> node]
       /\ src' = IF node.err = NoErr /\ ~node.done
                   THEN [src EXCEPT !.i = @ + 1]
                   ELSE [src EXCEPT !.closed = TRUE]
       /\ srcThrew' = IF node.err # NoErr THEN node.err ELSE srcThrew
  /\ UNCHANGED <<pipe, stg, pout, result, futures, calls, reqs>>
  /\ UNCHANGED <<producerVars, consumerVars, historyVars, opVars, lazyVars, eventVars>>

\* the effect of a step of the operator at level k
Apply(k, r) ==
  /\ calls' = calls \o r.call
  /\ IF r.go = "down"
       THEN /\ ctl' = [at |-> k - 1, dir |-> "req", node |-> Done]
            /\ reqs' = [reqs EXCEPT ![k] = @ + 1]
            /\ stg' = [stg EXCEPT ![k] = r.ls]
            /\ UNCHANGED src
       ELSE /\ ctl' = [at |-> k + 1, dir |-> "res", node |-> r.node]
            /\ UNCHANGED reqs
            \* break calls return() on the upstream iterator, which ends
            \* every generator below
            /\ stg' = [j \in 1..Len(stg) |->
                         IF j = k THEN r.ls
                         ELSE IF r.brk /\ j < k THEN [stg[j] EXCEPT !.pc = "done"]
                         ELSE stg[j]]
            /\ src' = IF r.brk THEN [src EXCEPT !.closed = TRUE] ELSE src

\* the consumer of the operator at level k calls next() on it
stage_next(k) ==
  /\ ctl.dir = "req" /\ ctl.at = k
  /\ Apply(k, stageRequest(compose(pipe.methods)[k], stg[k]))
  /\ UNCHANGED <<pipe, pout, result, futures, srcThrew>>
  /\ UNCHANGED <<producerVars, consumerVars, historyVars, opVars, lazyVars, eventVars>>

\* the result of the upstream next() reaches the operator at level k
stage_result(k) ==
  /\ ctl.dir = "res" /\ ctl.at = k
  /\ Apply(k, stageResult(compose(pipe.methods)[k], stg[k], ctl.node))
  /\ UNCHANGED <<pipe, pout, result, futures, srcThrew>>
  /\ UNCHANGED <<producerVars, consumerVars, historyVars, opVars, lazyVars, eventVars>>

\* ---- terminal operators: toArray (part_000:224-231), reduce
\* (part_000:93-100, with fn = (a, b) => a + b and start = 0), forEach
\* (part_000:213-217)
Running == [st |-> "running", value |-> 0, err |-> NoErr]

\* forEach as it would be with `await fn(v)`
awaitsFn_awaited(fs) == \E k \in 1..Len(fs) : fs[k] = "pending"

\* whether the loop waits for what fn returned: `fn(v);` drops it
awaitsFn(fs) == FALSE

\* the for await loop of the terminal operator calls next()
term_next ==
  /\ ctl.dir = "idle" /\ ctl.at = Top
  /\ result.st = "running"
  /\ ~awaitsFn(futures)
  /\ ctl' = [at |-> Top - 1, dir |-> "req", node |-> Done]
  /\ reqs' = [reqs EXCEPT ![Top] = @ + 1]
  /\ UNCHANGED <<pipe, stg, src, pout, result, futures, calls, srcThrew>>
  /\ UNCHANGED <<producerVars, consumerVars, historyVars, opVars, lazyVars, eventVars>>

\* the loop body, the end of the loop, or the rejection
term_result ==
  /\ ctl.dir = "res" /\ ctl.at = Top
  /\ ctl' = [ctl EXCEPT !.dir = "idle"]
  /\ IF ctl.node.err # NoErr
       THEN /\ result' = [st |-> "rejected", value |-> 0, err |-> ctl.node.err]
            /\ UNCHANGED <<pout, futures, calls>>
       ELSE IF ctl.node.done
         THEN /\ result' = [result EXCEPT !.st = "resolved"]
              /\ UNCHANGED <<pout, futures, calls>>
         ELSE /\ pout' = Append(pout, ctl.node.value)
              /\ result' = IF pipe.term = "reduce"
                             THEN [result EXCEPT !.value = @ + ctl.node.value]
                             ELSE result
              /\ calls' = IF pipe.term = "forEach"
                            THEN Append(calls, <<"forEach", ctl.node.value>>)
                            ELSE calls
              /\ futures' = IF pipe.term = "forEach" /\ pipe.fnAsync
                              THEN Append(futures, "pending")
                              ELSE futures
  /\ UNCHANGED <<pipe, stg, src, reqs, srcThrew>>
  /\ UNCHANGED <<producerVars, consumerVars, historyVars, opVars, lazyVars, eventVars>>

\* a future that forEach's fn returned settles
future_settle ==
  /\ \E k \in 1..Len(futures) :
       /\ futures[k] = "pending"
       /\ futures' = [futures EXCEPT ![k] = "settled"]
  /\ UNCHANGED <<pipe, stg, src, ctl, pout, result, calls, reqs, srcThrew>>
  /\ UNCHANGED <<producerVars, consumerVars, historyVars, opVars, lazyVars, eventVars>>

\* ---- the pipelines that are run
Preds == SUBSET (0..MaxEnd)
OneMethod ==
  {Method("map", 0, {}, f) : f \in Fns}
  \cup {Method(k, 0, pr, "double") : k \in {"filter", "takeWhile", "takeUntil"}, pr \in Preds}
  \cup {Method(k, n, {}, "double") : k \in {"take", "skip"}, n \in 0..MaxTake}
  \cup {Method(k, 0, {}, "double") : k \in {"tap", "flatMap"}}
\* compose(map(f), filter(p)) and compose(filter(p), map(f))
TwoMethods ==
  {<<Method("map", 0, {}, f), Method("filter", 0, pr, "double")>> : f \in Fns, pr \in Preds}
  \cup {<<Method("filter", 0, pr, "double"), Method("map", 0, {}, f)>> : f \in Fns, pr \in Preds}
Methods == {<<>>} \cup {<<d>> : d \in OneMethod} \cup TwoMethods

\* whether the pipeline ends on its own over an unbounded range
StopsEarly(methods) ==
  Len(methods) = 1 /\ methods[1].kind \in {"take", "takeWhile", "takeUntil"}

PipeIdle ==
  /\ pipe = [methods |-> <<>>, start |-> 0, end |-> 0, throwAt |-> 0,
             err |-> NoErr, term |-> "none", fnAsync |-> FALSE]
  /\ stg = <<>>
  /\ src = [i |-> 0, closed |-> TRUE]
  /\ ctl = NoCtl
  /\ pout = <<>>
  /\ result = [Running EXCEPT !.st = "none"]
  /\ futures = <<>>
  /\ calls = <<>>
  /\ reqs = <<>>
  /\ srcThrew = NoErr

InitPipe ==
  /\ \E methods \in Methods, start \in Starts, end \in Ends \cup {Infinity},
        throwAt \in 0..(MaxEnd + 1), err \in Errors \cup {NoErr},
        term \in {"toArray", "reduce", "forEach"}, fnAsync \in BOOLEAN :
       /\ end = Infinity => StopsEarly(methods)
       /\ (throwAt = 0) = (err = NoErr)
       /\ fnAsync => (term = "forEach" /\ methods = <<>> /\ throwAt = 0)
       /\ Len(methods) = 2 => term = "toArray"
       /\ pipe = [methods |-> methods, start |-> start, end |-> end,
                  throwAt |-> throwAt, err |-> err, term |-> term,
                  fnAsync |-> fnAsync]
       /\ stg = [k \in 1..Len(methods) |-> StageInit]
       /\ src = [i |-> start, closed |-> FALSE]
       /\ ctl = [at |-> Len(methods) + 1, dir |-> "idle", node |-> Done]
       /\ reqs = [k \in 1..(Len(methods) + 1) |-> 0]
  /\ pout = <<>>
  /\ result = Running
  /\ futures = <<>>
  /\ calls = <<>>
  /\ srcThrew = NoErr
  /\ ProducerInit
  /\ ConsumersInit
  /\ OpIdle
  /\ LazyIdle
  /\ EventIdle

NextPipe ==
  \/ term_next
  \/ src_next
  \/ \E k \in 1..Len(stg) : stage_next(k)
  \/ \E k \in 1..Len(stg) : stage_result(k)
  \/ term_result
  \/ future_settle

SpecPipe == InitPipe /\ [][NextPipe]_vars

(* ------------------------------- Lazy ---------------------------------- *)
\* how many iterations of the Lazy are started besides merge's two
MaxIters == 2

\* Lazy as it would be if it kept the iterator of its first iteration
asyncIterator_cached(l, h) ==
  IF h = <<>> THEN [heap |-> <<RangeGen(l.start, l.end, FALSE)>>, ref |-> 1]
              ELSE [heap |-> h, ref |-> 1]

\* [Symbol.asyncIterator]() (index.js:13-15): `return this._gen()`, a call of
\* the generator function given to the constructor; for range (part_000:29-34)
\* that is a new generator with its own `let i = start`
asyncIterator(l, h) ==
  [heap |-> Append(h, RangeGen(l.start, l.end, FALSE)), ref |-> Len(h) + 1]

\* a consumer starts an iteration of the Lazy
lazy_iterate ==
  /\ asked < MaxIters + 2
  /\ LET r == asyncIterator(lazy, heap) IN
       /\ heap' = r.heap
       /\ seen' = IF Len(r.heap) > Len(heap) THEN Append(seen, <<>>) ELSE seen
  /\ asked' = asked + 1
  /\ UNCHANGED <<lazy, mrg, mout>>
  /\ UNCHANGED <<producerVars, consumerVars, historyVars, opVars, pipeVars, eventVars>>

\* a consumer calls next() on the iterator it holds
iter_next(k) ==
  /\ k \notin {mrg.a, mrg.b}
  /\ ~heap[k].closed
  /\ heap' = [heap EXCEPT ![k] = genAfter(@)]
  /\ seen' = IF genNode(heap[k]).done THEN seen
             ELSE [seen EXCEPT ![k] = Append(@, genNode(heap[k]).value)]
  /\ UNCHANGED <<lazy, asked, mrg, mout>>
  /\ UNCHANGED <<producerVars, consumerVars, historyVars, opVars, pipeVars, eventVars>>

\* `nodeA = genA.next(); nodeB = genB.next()` (part_000:177-178, 186-187)
NextBoth(h, a, b) ==
  LET h1 == [h EXCEPT ![a] = genAfter(@)]
  IN [heap |-> [h1 EXCEPT ![b] = genAfter(@)],
      na |-> genNode(h[a]),
      nb |-> genNode(h1[b])]

\* the first next() on merge(fn, lazy, lazy) (part_000:175-178)
merge_begin ==
  /\ mrg.pc = "none"
  /\ asked < MaxIters + 1
  /\ LET ra == asyncIterator(lazy, heap)
         rb == asyncIterator(lazy, ra.heap)
         nx == NextBoth(rb.heap, ra.ref, rb.ref)
     IN /\ heap' = nx.heap
        /\ seen' = [k \in 1..Len(nx.heap) |-> IF k <= Len(seen) THEN seen[k] ELSE <<>>]
        /\ mrg' = [pc |-> "await", a |-> ra.ref, b |-> rb.ref,
                   na |-> nx.na, nb |-> nx.nb]
  /\ asked' = asked + 2
  /\ UNCHANGED <<lazy, mout>>
  /\ UNCHANGED <<producerVars, consumerVars, historyVars, opVars, pipeVars, eventVars>>

\* `while (!nodeA.done)` and the loop body up to the yield (part_000:180-184)
merge_pair ==
  /\ mrg.pc = "await"
  /\ IF mergeContinues(mrg.na, mrg.nb)
       THEN /\ mout' = Append(mout, mergeYield(mrg.na, mrg.nb, "A"))
            /\ mrg' = [mrg EXCEPT !.pc = "yielded"]
       ELSE /\ mrg' = [mrg EXCEPT !.pc = "done"]
            /\ UNCHANGED mout
  /\ UNCHANGED <<lazy, heap, seen, asked>>
  /\ UNCHANGED <<producerVars, consumerVars, historyVars, opVars, pipeVars, eventVars>>

\* the next next() on merge's iterator (part_000:186-187)
merge_resume ==
  /\ mrg.pc = "yielded"
  /\ LET nx == NextBoth(heap, mrg.a, mrg.b)
     IN /\ heap' = nx.heap
        /\ mrg' = [mrg EXCEPT !.pc = "await", !.na = nx.na, !.nb = nx.nb]
  /\ UNCHANGED <<lazy, seen, asked, mout>>
  /\ UNCHANGED <<producerVars, consumerVars, historyVars, opVars, pipeVars, eventVars>>

InitLazy ==
  /\ \E start \in Starts, end \in Ends : lazy = [start |-> start, end |-> end]
  /\ heap = <<>>
  /\ seen = <<>>
  /\ asked = 0
  /\ mrg = NoMerge
  /\ mout = <<>>
  /\ ProducerInit
  /\ ConsumersInit
  /\ OpIdle
  /\ PipeIdle
  /\ EventIdle

NextLazy ==
  \/ lazy_iterate
  \/ \E k \in 1..Len(heap) : iter_next(k)
  \/ merge_begin
  \/ merge_pair
  \/ merge_resume

SpecLazy == InitLazy /\ [][NextLazy]_vars

\* the operators and arguments that are iterated
Ops ==
  [kind : {"take"}, num : 0..MaxTake, pred : {{}}, start : Starts,
   end : Ends \cup {Infinity}]
  \cup [kind : {"skipWhile", "skipUntil"}, num : {0}, pred : SUBSET (0..MaxEnd),
        start : Starts, end : Ends]
  \cup [kind : {"merge"}, num : {0}, pred : {{}}, start : Starts, end : Ends]

\* an operator applied to range(start, end); for merge, iterA is that range or
\* map(mapFn, that range), and iterB is any range(1, endB)
InitOps ==
  /\ op \in Ops
  /\ \E asyncA \in BOOLEAN :
       /\ (asyncA => op.kind = "merge")
       /\ genA = RangeGen(op.start, op.end, asyncA)
  /\ \/ /\ op.kind = "merge"
        /\ \E endB \in Ends \cup {Infinity}, asyncB \in BOOLEAN :
             genB = RangeGen(1, endB, asyncB)
     \/ /\ op.kind # "merge"
        /\ genB = NoGen
  /\ nodeA = NoNode
  /\ nodeB = NoNode
  /\ opPc = "start"
  /\ remaining = 0
  /\ hasSkipped = FALSE
  /\ v = Undefined
  /\ out = <<>>
  /\ pullsA = 0
  /\ pullsB = 0
  /\ pulls = 0
  /\ firstSettled = "none"
  /\ ProducerInit
  /\ ConsumersInit
  /\ PipeIdle
  /\ LazyIdle
  /\ EventIdle

NextOps ==
  \/ take_pull
  \/ take_step
  \/ skip_pull
  \/ skip_step
  \/ merge_pull
  \/ settle_A
  \/ settle_B
  \/ merge_step
  \/ merge_yield

SpecOps == InitOps /\ [][NextOps]_vars

(* ------------------------------ fromEvent ------------------------------ *)
\* new Producer() (producer.js:10-17) as a value: one pending promise with
\* both handles on it
newProducer ==
  [promises |-> <<Pending>>, prom |-> 1, resolve |-> 1, reject |-> 1,
   iterating |-> TRUE]

\* producer.next(value) (producer.js:33-38) on the Producer pr
producerNext(pr, value) ==
  [pr EXCEPT !.promises = Append(Settle(pr.promises, pr.resolve, Fulfilled(value)),
                                 Pending),
             !.prom = Len(pr.promises) + 1,
             !.resolve = Len(pr.promises) + 1]

\* target.emit(event, value): the listeners are called in registration order
RECURSIVE emit(_, _, _)
emit(ps, ls, value) ==
  IF ls = <<>> THEN ps
  ELSE emit([ps EXCEPT ![ls[1]] = producerNext(@, value)], Tail(ls), value)

\* fromEvent as it would be if it subscribed when it is called
fromEvent_eager ==
  /\ ~built
  /\ built' = TRUE
  /\ prods' = Append(prods, newProducer)
  /\ listeners' = Append(listeners, Len(prods) + 1)
  /\ UNCHANGED <<evIt, emitted, firstPullAt>>
  /\ UNCHANGED <<producerVars, consumerVars, historyVars, opVars, pipeVars, lazyVars>>

\* fromEvent(event, target) (part_000:242-251): new Lazy(async function* ...),
\* nothing of the generator function runs
fromEvent ==
  /\ ~built
  /\ built' = TRUE
  /\ UNCHANGED <<listeners, prods, evIt, emitted, firstPullAt>>
  /\ UNCHANGED <<producerVars, consumerVars, historyVars, opVars, pipeVars, lazyVars>>

\* [Symbol.asyncIterator]() on the Lazy (index.js:13-15): an async generator
\* object, whose body has not started
ev_iterate(i) ==
  /\ built
  /\ evIt[i].pc = "none"
  /\ evIt' = [evIt EXCEPT ![i].pc = "created"]
  /\ UNCHANGED <<built, listeners, prods, emitted, firstPullAt>>
  /\ UNCHANGED <<producerVars, consumerVars, historyVars, opVars, pipeVars, lazyVars>>

\* next() on the iteration. The first one runs the body (part_000:245-249):
\* new Producer(), target.on(event, producer.next), and `yield* producer`
\* pulls the Producer's generator, which awaits `prom`; a later one resumes
\* that generator at `while (iterating) yield prom`
ev_pull(i) ==
  /\ evIt[i].pc \in {"created", "yielded"}
  /\ IF evIt[i].pc = "created"
       THEN /\ prods' = Append(prods, newProducer)
            /\ listeners' = Append(listeners, Len(prods) + 1)
            /\ evIt' = [evIt EXCEPT ![i] = [pc |-> "await", prod |-> Len(prods) + 1,
                                            awaiting |-> newProducer.prom,
                                            got |-> <<>>]]
            /\ firstPullAt' = [firstPullAt EXCEPT ![i] = emitted]
       ELSE /\ evIt' = [evIt EXCEPT ![i].pc = "await",
                                    ![i].awaiting = prods[evIt[i].prod].prom]
            /\ UNCHANGED <<prods, listeners, firstPullAt>>
  /\ UNCHANGED <<built, emitted>>
  /\ UNCHANGED <<producerVars, consumerVars, historyVars, opVars, pipeVars, lazyVars>>

\* the awaited promise is resolved: the value is yielded to the consumer
ev_resume(i) ==
  /\ evIt[i].pc = "await"
  /\ LET pm == prods[evIt[i].prod].promises[evIt[i].awaiting] IN
       /\ pm.st = "fulfilled"
       /\ evIt' = [evIt EXCEPT ![i].pc = "yielded", ![i].awaiting = 0,
                                ![i].got = Append(@, pm.val)]
  /\ UNCHANGED <<built, listeners, prods, emitted, firstPullAt>>
  /\ UNCHANGED <<producerVars, consumerVars, historyVars, opVars, pipeVars, lazyVars>>

\* the consumer leaves its loop: return() ends the generators; fromEvent has
\* no finally block, nothing is unsubscribed
ev_return(i) ==
  /\ evIt[i].pc = "yielded"
  /\ evIt' = [evIt EXCEPT ![i].pc = "done"]
  /\ UNCHANGED <<built, listeners, prods, emitted, firstPullAt>>
  /\ UNCHANGED <<producerVars, consumerVars, historyVars, opVars, pipeVars, lazyVars>>

\* target.emit(event, k) for the k-th event
ev_emit ==
  /\ emitted < MaxEmit
  /\ emitted' = emitted + 1
  /\ prods' = emit(prods, listeners, emitted + 1)
  /\ UNCHANGED <<built, listeners, evIt, firstPullAt>>
  /\ UNCHANGED <<producerVars, consumerVars, historyVars, opVars, pipeVars, lazyVars>>

InitEvent ==
  /\ EventIdle
  /\ ProducerInit
  /\ ConsumersInit
  /\ OpIdle
  /\ PipeIdle
  /\ LazyIdle

NextEvent ==
  \/ fromEvent
  \/ \E i \in EvIters : ev_iterate(i)
  \/ \E i \in EvIters : ev_pull(i)
  \/ \E i \in EvIters : ev_resume(i)
  \/ \E i \in EvIters : ev_return(i)
  \/ ev_emit

SpecEvent == InitEvent /\ [][NextEvent]_vars

(* ------------------------ take over a Producer ------------------------- *)
\* toArray(take(num, producer)): the for await loop of take is iteration 1 of
\* the Producer.
\* the consumer calls next() on take: `let remaining = num` or `remaining--`,
\* then the loop asks the Producer's generator for its next value
takeP_pull ==
  /\ op.kind = "take"
  /\ opPc \in {"start", "yielded"}
  /\ pulls < MaxPulls
  /\ pulls' = pulls + 1
  /\ remaining' = IF opPc = "start" THEN op.num ELSE remaining - 1
  /\ gen' = [gen EXCEPT ![1] = genPull(gen[1])]
  /\ pullsA' = pullsA + 1
  /\ opPc' = "await"
  /\ pullAt' = [pullAt EXCEPT ![1] = nextCalls]
  /\ pullEnds' = [pullEnds EXCEPT ![1] = endCalls]
  /\ UNCHANGED <<op, genA, genB, nodeA, nodeB, hasSkipped, v, out, pullsB,
                 firstSettled>>
  /\ UNCHANGED <<producerVars, delivered, thrown, nextCalls, endCalls,
                 completeAt, errorAt, errAt, heard>>
  /\ UNCHANGED <<pipeVars, lazyVars, eventVars>>

\* the Producer's generator answered: it returned, it threw, or it gave a
\* value, on which take breaks or yields
takeP_step ==
  /\ op.kind = "take"
  /\ opPc = "await"
  /\ IF gen[1].pc = "done"
       THEN /\ opPc' = "done"
            /\ UNCHANGED <<gen, delivered, thrown, v, out>>
       ELSE LET p == promises[gen[1].awaiting] IN
         /\ p.st # "pending"
         /\ IF p.st = "rejected"
              THEN /\ gen' = [gen EXCEPT ![1] = [pc |-> "thrown", awaiting |-> 0]]
                   /\ thrown' = [thrown EXCEPT ![1] = Append(@, p.err)]
                   /\ opPc' = "thrown"
                   /\ UNCHANGED <<delivered, v, out>>
              ELSE /\ delivered' = [delivered EXCEPT ![1] = Append(@, p.val)]
                   /\ v' = p.val
                   /\ UNCHANGED thrown
                   /\ IF takeYields(remaining)
                        THEN /\ out' = Append(out, p.val)
                             /\ opPc' = "yielded"
                             /\ gen' = [gen EXCEPT ![1] = [pc |-> "yielded", awaiting |-> 0]]
                        ELSE /\ gen' = [gen EXCEPT ![1] = [pc |-> "done", awaiting |-> 0]]
                             /\ opPc' = "done"
                             /\ UNCHANGED out
  /\ UNCHANGED <<op, genA, genB, nodeA, nodeB, remaining, hasSkipped, pullsA,
                 pullsB, pulls, firstSettled>>
  /\ UNCHANGED <<producerVars, historyVars, pipeVars, lazyVars, eventVars>>

InitTakeProducer ==
  /\ \E num \in 0..MaxTake :
       op = [kind |-> "take", num |-> num, pred |-> {}, start |-> 0, end |-> 0]
  /\ genA = NoGen
  /\ genB = NoGen
  /\ nodeA = NoNode
  /\ nodeB = NoNode
  /\ opPc = "start"
  /\ remaining = 0
  /\ hasSkipped = FALSE
  /\ v = Undefined
  /\ out = <<>>
  /\ pullsA = 0
  /\ pullsB = 0
  /\ pulls = 0
  /\ firstSettled = "none"
  /\ ProducerInit
  /\ ConsumersInit
  /\ PipeIdle
  /\ LazyIdle
  /\ EventIdle

NextTakeProducer ==
  \/ Next_next
  \/ Next_complete
  \/ Next_error
  \/ takeP_pull
  \/ takeP_step

SpecTakeProducer == InitTakeProducer /\ [][NextTakeProducer]_vars

\* a Producer and the iterations of it; no operator is involved
InitProducer ==
  /\ ProducerInit
  /\ ConsumersInit
  /\ OpIdle
  /\ PipeIdle
  /\ LazyIdle
  /\ EventIdle

NextProducer ==
  \/ Next_next
  \/ Next_complete
  \/ Next_error
  \/ \E c \in Consumers : Pull(c)
  \/ \E c \in Consumers : Resume(c)

SpecProducer == InitProducer /\ [][NextProducer]_vars

\* the consumers are for await loops and promise jobs always run: a settled
\* await resumes and a consumer that received a value asks for the next one
FairProducer ==
  SpecProducer /\ \A c \in Consumers : WF_vars(Pull(c)) /\ WF_vars(Resume(c))

(* ======================= properties of the Producer ==================== *)
InProgress(c) == gen[c].pc \in {"await", "yielded"}
Ended(c) == gen[c].pc \in {"done", "thrown"}

\* C1: when error(err) is called while an iteration's pull is in flight, that
\* iteration receives nothing more, does not end normally, and what it
\* throws is exactly err, once - whatever next() calls came before.
C1_ErrorSurfacesErr ==
  \A c \in Consumers :
    errAt[c] # NoErr =>
      /\ gen[c].pc \in {"await", "thrown"}
      /\ gen[c].pc = "thrown" => thrown[c] = <<errAt[c]>>

\* the first pull of iteration c began right after next(1), next(2) on a
\* fresh Producer (no complete() or error() before it)
FirstPullAfterTwo(c) ==
  /\ pullAt[c] = 2
  /\ pullEnds[c] = 0
  /\ \/ gen[c].pc = "await" /\ delivered[c] = <<>>
     \/ gen[c].pc = "yielded" /\ Len(delivered[c]) = 1

Range(s) == {s[k] : k \in 1..Len(s)}

\* C3: no value passed to a next() call made after complete() is ever
\* delivered to a consumer.
C3_NoValueAfterComplete ==
  completeAt # -1 =>
    \A c \in Consumers : \A val \in Range(delivered[c]) : val <= completeAt

\* C4: no value passed to a next() call made after error() is ever delivered
\* to a consumer.
C4_NoValueAfterError ==
  errorAt # -1 =>
    \A c \in Consumers : \A val \in Range(delivered[c]) : val <= errorAt

\* C5: once complete() has been called, every iteration in progress
\* eventually ends, with no further call by the producer needed.
C5_CompleteEnds ==
  \A c \in Consumers : (completeAt # -1 /\ InProgress(c)) ~> Ended(c)

\* C10: the bridge starts Active (iterating); next() leaves the flag as it
\* is; complete() and error() clear it; once cleared it is never set again.
C10_StateMachine ==
  /\ iterating = TRUE
  /\ [][/\ ~iterating => ~iterating'
        /\ nextCalls' # nextCalls => iterating' = iterating
        /\ endCalls' # endCalls => ~iterating']_vars

C10_Witness ==
  /\ ~iterating
  /\ completeAt # -1 /\ nextCalls > completeAt
  /\ errorAt # -1 /\ nextCalls > errorAt

\* the promises of the bridge that nothing has settled yet
Unsettled == {i \in 1..Len(promises) : promises[i].st = "pending"}

\* C11: at most one unsettled promise of the bridge exists, and it is the one
\* in the slot (`prom`, which `resolve` settles); each next(v) leaves the
\* promise that was in the slot settled and installs exactly one fresh
\* unsettled promise in its place.
C11_SingleSlot ==
  /\ Cardinality(Unsettled) <= 1
  /\ Unsettled \subseteq {prom}
  /\ resolve = prom
  /\ prom = Len(promises)
  /\ Len(promises) = nextCalls + 1
  /\ nextCalls > 0 => promises[prom].st = "pending"

C11_Witness ==
  /\ nextCalls = 3
  /\ Unsettled = {4}
  /\ promises[1].st = "rejected"

(* ====================== properties of the operators ==================== *)
Min(a, b) == IF a <= b THEN a ELSE b
\* the number of values of the source that iterA / iter is built on
LenA == SrcLen(op.start, op.end)
IsPrefix(s, t) == Len(s) <= Len(t) /\ \A k \in 1..Len(s) : s[k] = t[k]

\* C6: merge(fn, A, B) yields exactly as many values as A has and then ends,
\* whether A is a plain generator source or the output of map.
C6_MergeStopsWithA ==
  op.kind = "merge" =>
    /\ Len(out) <= LenA
    /\ opPc = "done" => Len(out) = LenA

\* min(n, m) for take(n, s), s of length m (Infinity for an unbounded range)
TakeCount == IF op.end = Infinity THEN op.num ELSE Min(op.num, LenA)

\* C7: take(n, s) never makes more than min(n, m) requests to s.
C7_TakePullBound ==
  op.kind = "take" => pullsA <= TakeCount

\* the first min(n, m) values of range(start, end)
TakeExpected == [k \in 1..TakeCount |-> op.start + k - 1]

\* C8: take(n, s) yields exactly the first min(n, m) values of s, in order,
\* and then ends: the pull after the last of them finishes the iteration.
C8_TakeFirstN ==
  op.kind = "take" =>
    /\ IsPrefix(out, TakeExpected)
    /\ opPc = "done" => out = TakeExpected
    /\ (opPc = "await" /\ out = TakeExpected) =>
         (nodeA.done \/ ~takeYields(remaining))

C8_Witness ==
  /\ op.kind = "take" /\ op.num = 2 /\ op.end = Infinity
  /\ opPc = "done"
  /\ out = <<op.start, op.start + 1>>

\* the condition under which skipWhile / skipUntil are meant to discard
SkipCond(val) == IF op.kind = "skipWhile" THEN val \in op.pred ELSE val \notin op.pred
\* the values of range(start, end) from the first one that ends the run on
SkipFrom ==
  LET rest == {i \in op.start..op.end : ~SkipCond(i)}
  IN IF rest = {} THEN op.end + 1
     ELSE CHOOSE i \in rest : \A j \in rest : i <= j
SkipExpected == [k \in 1..(op.end - SkipFrom + 1) |-> SkipFrom + k - 1]

\* C9: skipWhile / skipUntil discard the leading run and then yield every
\* remaining value exactly once and in order.
C9_SkipYieldsRestOnce ==
  op.kind \in {"skipWhile", "skipUntil"} =>
    /\ IsPrefix(out, SkipExpected)
    /\ opPc = "done" => out = SkipExpected

\* the k-th value of a merge branch whose iterator is g, and its length
\* (Infinity for an unbounded range)
BranchValue(g, start, k) == IF g.async THEN mapFn(start + k - 1) ELSE start + k - 1
LenB == IF genB.end = Infinity THEN Infinity ELSE SrcLen(1, genB.end)
\* k <= min(|A|, |B|)
InBoth(k) == k <= LenA /\ (LenB = Infinity \/ k <= LenB)

\* C12: for every k up to min(|A|, |B|) the k-th value merge yields is
\* fn(a_k, b_k), whichever of the two branch results settled first.
C12_MergePairsByPosition ==
  op.kind = "merge" =>
    \A k \in 1..Len(out) :
      InBoth(k) =>
        out[k] = <<BranchValue(genA, op.start, k), BranchValue(genB, 1, k)>>

C12_Witness ==
  /\ op.kind = "merge"
  /\ opPc = "yielded"
  /\ firstSettled = "B"
  /\ genA.async /\ genB.async
  /\ Len(out) = 2 /\ InBoth(2)
  /\ out[2] = <<mapFn(op.start + 1), mapFn(2)>>

SrcSeq(n) == [k \in 1..n |-> pipe.start + k - 1]

\* the values before the first one that satisfies stop(_)
RECURSIVE Before(_, _, _)
Before(seq, stop(_), k) ==
  IF k > Len(seq) \/ stop(seq[k]) THEN SubSeq(seq, 1, k - 1)
  ELSE Before(seq, stop, k + 1)

\* 1..x for each x of seq, concatenated
RECURSIVE Flat(_)
Flat(seq) ==
  IF seq = <<>> THEN <<>>
  ELSE [k \in 1..seq[1] |-> k] \o Flat(Tail(seq))

\* what one operator makes of the sequence seq
ExpectedOf(d, seq) ==
  CASE d.kind = "map" -> [k \in 1..Len(seq) |-> ApplyFn(d.fn, seq[k])]
    [] d.kind = "filter" -> SelectSeq(seq, LAMBDA x : x \in d.pred)
    [] d.kind = "tap" -> seq
    [] d.kind = "skip" -> SubSeq(seq, Min(d.num, Len(seq)) + 1, Len(seq))
    [] d.kind = "take" -> SubSeq(seq, 1, Min(d.num, Len(seq)))
    [] d.kind = "takeWhile" -> Before(seq, LAMBDA x : x \notin d.pred, 1)
    [] d.kind = "takeUntil" -> Before(seq, LAMBDA x : x \in d.pred, 1)
    [] d.kind = "flatMap" -> Flat(seq)

\* what compose(methods) makes of seq: the rightmost method is applied first
RECURSIVE Expected(_, _)
Expected(methods, seq) ==
  IF methods = <<>> THEN seq
  ELSE Expected(SubSeq(methods, 1, Len(methods) - 1),
                ExpectedOf(methods[Len(methods)], seq))

\* C14: an error the source throws passes every operator unchanged: once
\* the source has thrown e, e is either on its way up through the operators
\* or the Promise of toArray / reduce / forEach is rejected with exactly e,
\* and what the terminal operator received is what the operators make of
\* the values before the throw; the Promise is never resolved, and never
\* rejected with anything else.
C14_ErrorPropagates ==
  /\ srcThrew # NoErr =>
       /\ srcThrew = pipe.err
       /\ \/ result.st = "rejected" /\ result.err = srcThrew
          \/ result.st = "running" /\ ctl.dir = "res" /\ ctl.node = Err(srcThrew)
       /\ \A k \in 1..Len(stg) : k < ctl.at => stg[k].pc = "thrown"
  /\ result.st = "rejected" =>
       /\ srcThrew # NoErr
       /\ pout = Expected(pipe.methods, SrcSeq(pipe.throwAt - 1))

C14_Witness ==
  /\ result.st = "rejected" /\ result.err = "e2"
  /\ Len(pipe.methods) = 2 /\ pipe.throwAt = 3
  /\ Len(pout) = 2

\* the whole of the pipeline's finite source
SrcAll == SrcSeq(SrcLen(pipe.start, pipe.end))

\* the pipeline compose(map(f), filter(p)) consumed by toArray
MapOfFilter ==
  /\ Len(pipe.methods) = 2
  /\ pipe.methods[1].kind = "map" /\ pipe.methods[2].kind = "filter"
  /\ pipe.term = "toArray" /\ pipe.throwAt = 0

\* p(x), then f(x) when p(x) holds, for each x of seq in order
RECURSIVE CallsOf(_, _)
CallsOf(pr, seq) ==
  IF seq = <<>> THEN <<>>
  ELSE <<<<"filter", seq[1]>>>>
       \o (IF seq[1] \in pr THEN <<<<"map", seq[1]>>>> ELSE <<>>)
       \o CallsOf(pr, Tail(seq))

MapCalls == Len(SelectSeq(calls, LAMBDA c : c[1] = "map"))

\* C15: in compose(map(f), filter(p)) consumed by toArray the calls of p and
\* f are, for each source element x in order, p(x) and then f(x) when p(x)
\* holds, before p is called on the next element; and f(x) has reached
\* toArray before any function is called on a later element.
C15_ElementAtATime ==
  MapOfFilter =>
    /\ IsPrefix(calls, CallsOf(pipe.methods[2].pred, SrcAll))
    /\ result.st = "resolved" => calls = CallsOf(pipe.methods[2].pred, SrcAll)
    /\ MapCalls <= Len(pout) + 1
    /\ MapCalls = Len(pout) + 1 => calls[Len(calls)][1] = "map"

C15_Witness ==
  /\ MapOfFilter /\ result.st = "resolved"
  /\ pipe.start = 1 /\ pipe.end = 3 /\ pipe.methods[2].pred = {1, 3}
  /\ calls = << <<"filter", 1>>, <<"map", 1>>, <<"filter", 2>>,
                <<"filter", 3>>, <<"map", 3>> >>

\* C16: toArray(map(f, filter(p, s))) is f applied to exactly the values of
\* s for which p holds, in order; compose(map(f), filter(p)) is that
\* pipeline: the rightmost operator, filter, is applied to s first.
C16_MapOfFiltered ==
  MapOfFilter =>
    LET exp == ExpectedOf(pipe.methods[1], ExpectedOf(pipe.methods[2], SrcAll))
    IN /\ IsPrefix(pout, exp)
       /\ result.st = "resolved" => pout = exp

C16_Witness ==
  /\ MapOfFilter /\ result.st = "resolved"
  /\ pipe.start = 1 /\ pipe.end = 3 /\ pipe.methods[2].pred = {1, 3}
  /\ pipe.methods[1].fn = "double"
  /\ pout = <<2, 6>>

\* one operator of the given kind over a source that does not throw
Single(kind) ==
  /\ Len(pipe.methods) = 1 /\ pipe.methods[1].kind = kind
  /\ pipe.throwAt = 0

\* C17: flatMap(fn, s) yields the sequences fn(v) of the upstream values v,
\* each in its own order, one after the other in upstream order; when the
\* r-th value is asked of s, everything of fn(v) for the r - 1 values before
\* has been yielded.
C17_FlatMapDrains ==
  Single("flatMap") =>
    /\ IsPrefix(pout, Flat(SrcAll))
    /\ result.st = "resolved" => pout = Flat(SrcAll)
    /\ reqs[1] >= 1 =>
         Len(pout) >= Len(Flat(SrcSeq(Min(reqs[1] - 1, Len(SrcAll)))))

C17_Witness ==
  /\ Single("flatMap") /\ result.st = "resolved"
  /\ pipe.start = 1 /\ pipe.end = 3
  /\ pout = <<1, 1, 2, 1, 2, 3>>

\* the source as far as it is followed
SrcFar ==
  IF pipe.end = Infinity THEN SrcSeq(SrcCap - pipe.start + 1) ELSE SrcAll

\* the values that precede the first one for which pr is falsy
TakeWhileSeq(pr, seq) == Before(seq, LAMBDA x : x \notin pr, 1)
Not(pr) == (0..SrcCap) \ pr

\* C18: takeWhile(pred, s) yields exactly the values that precede the first
\* one for which pred is falsy, takeUntil(pred, s) what takeWhile(not pred, s)
\* yields; at the stopping value the sequence ends and s is closed, also when
\* s is unbounded.
C18_TakeWhileUntil ==
  LET exp == IF pipe.methods[1].kind = "takeWhile"
               THEN TakeWhileSeq(pipe.methods[1].pred, SrcFar)
               ELSE TakeWhileSeq(Not(pipe.methods[1].pred), SrcFar)
  IN (Single("takeWhile") \/ Single("takeUntil")) =>
       /\ IsPrefix(pout, exp)
       /\ result.st = "resolved" => (pout = exp /\ src.closed)
       /\ Len(exp) < Len(SrcFar) => reqs[1] <= Len(exp) + 1

C18_Witness ==
  /\ Single("takeUntil") /\ result.st = "resolved"
  /\ pipe.start = 1 /\ pipe.end = Infinity /\ pipe.methods[1].pred = {3}
  /\ pout = <<1, 2>>

\* forEach(fn, range(start, end)) with an fn that returns a future
ForEachAsync ==
  /\ pipe.term = "forEach" /\ pipe.fnAsync
  /\ pipe.methods = <<>> /\ pipe.throwAt = 0

AllSettled == \A k \in 1..Len(futures) : futures[k] = "settled"

\* C20 as stated: forEach awaits fn(value): while a next value is being
\* pulled from s, and once forEach's own result is resolved, every future
\* that fn returned has settled.
C20_ForEachAwaits ==
  ForEachAsync =>
    ((ctl.dir # "idle" \/ result.st = "resolved") => AllSettled)

\* C20: forEach(fn, s) invokes fn exactly once per value of s, in order,
\* and does not wait for what fn returns: whatever futures are unsettled,
\* the next value can be pulled, and the result resolves when s is exhausted.
C20_ForEachCallsOnce ==
  ForEachAsync =>
    /\ calls = [k \in 1..Len(pout) |-> <<"forEach", pout[k]>>]
    /\ Len(futures) = Len(calls)
    /\ IsPrefix(pout, SrcAll)
    /\ result.st = "resolved" => pout = SrcAll
    /\ (result.st = "running" /\ ctl.dir = "idle") => ENABLED term_next

C20_Witness ==
  /\ ForEachAsync /\ result.st = "resolved"
  /\ pipe.start = 1 /\ pipe.end = 3
  /\ futures = <<"pending", "pending", "pending">>

\* the sequence range(lazy.start, lazy.end) produces
LazySeq == [k \in 1..SrcLen(lazy.start, lazy.end) |-> lazy.start + k - 1]

\* C19: every request for an iterator of a Lazy runs its generator function
\* again, so each iterator of range(start, end) stands where its own next()
\* calls put it, whatever was done with the others, and yields the full
\* sequence; merge(fn, s, s) pairs each element of s with itself.
C19_IndependentReplay ==
  /\ Len(heap) = asked
  /\ \A k \in 1..Len(heap) :
       k \notin {mrg.a, mrg.b} =>
         /\ IsPrefix(seen[k], LazySeq)
         /\ heap[k].i = lazy.start + Len(seen[k])
         /\ heap[k].closed => seen[k] = LazySeq
  /\ \A k \in 1..Len(mout) : mout[k] = <<LazySeq[k], LazySeq[k]>>
  /\ mrg.pc = "done" => Len(mout) = Len(LazySeq)

C19_Witness ==
  /\ lazy = [start |-> 1, end |-> 3]
  /\ mrg.pc = "done" /\ mout = << <<1, 1>>, <<2, 2>>, <<3, 3>> >>
  /\ \E j, k \in 1..Len(heap) :
       /\ {j, k} \cap {mrg.a, mrg.b} = {}
       /\ heap[j].closed /\ seen[j] = <<1, 2, 3>>
       /\ ~heap[k].closed /\ seen[k] = <<1>>

Reaches(k, c) ==
  \/ k \in Range(delivered[c])
  \/ /\ PullInFlight(c)
     /\ promises[gen[c].awaiting] = Fulfilled(k)

RECURSIVE Emits(_, _, _, _)
Emits(pr, i, end, started) ==
  IF i > end THEN <<>>
  ELSE IF ~started
    THEN IF i \in pr THEN Emits(pr, i + 1, end, FALSE)
                     ELSE <<i>> \o Emits(pr, i + 1, end, TRUE)
    ELSE (IF i \in pr THEN <<i>> ELSE <<i, i>>) \o Emits(pr, i + 1, end, TRUE)

\* C27: once the leading run has ended, skipWhile(pred, s) yields the value
\* that ended the run once, and each later value once when pred holds of it
\* and twice in a row when it does not; skipUntil(pred, s) yields what
\* skipWhile(not pred, s) yields.
C27_SkipEmissionCount ==
  LET pr == IF op.kind = "skipWhile" THEN op.pred
            ELSE (op.start..op.end) \ op.pred
      exp == Emits(pr, op.start, op.end, FALSE)
  IN op.kind \in {"skipWhile", "skipUntil"} =>
       /\ IsPrefix(out, exp)
       /\ opPc = "done" => out = exp

C27_Witness ==
  /\ op.kind = "skipUntil" /\ op.start = 0 /\ op.end = 3 /\ op.pred = {1, 3}
  /\ opPc = "done"
  /\ out = <<1, 2, 3, 3>>

\* how often the value x was emitted
Count(x) == Cardinality({k \in 1..Len(out) : out[k] = x})

C24_MergePreAdvancesB ==
  (op.kind = "merge" /\ ~genA.async) =>
    /\ pullsB = pullsA
    /\ (opPc = "done" /\ (LenB = Infinity \/ LenB >= LenA + 1)) =>
         /\ Len(out) = LenA
         /\ pullsB = LenA + 1
         /\ genB.i = 1 + LenA + 1

C24_Witness ==
  /\ op.kind = "merge" /\ ~genA.async /\ ~genB.async
  /\ op.start = 1 /\ op.end = 2 /\ genB.end = 3
  /\ opPc = "done"
  /\ Len(out) = 2 /\ pullsB = 3 /\ genB.i = 4

(* ------------------ claims about take over a Producer ------------------ *)
\* every next() so far was called while take's pull was waiting, and
\* complete() and error() were never called
EachWhilePulling ==
  /\ endCalls = 0
  /\ \A k \in 1..nextCalls : 1 \in heard[k]

\* C22: when the Producer got exactly num next() calls, each made while a
\* pull was in flight, take(num, producer) has ended with those num values
\* once they were delivered: it is not waiting for the Producer to produce
\* another one.
C22_TakeEndsAtCount ==
  (op.kind = "take" /\ EachWhilePulling /\ nextCalls = op.num
     /\ Len(out) = op.num) =>
    ~(opPc = "await" /\ PullPending(1))

(* ---------------------- one pull in flight at a time ------------------- *)
\* the points at which an operator's generator is suspended at a yield, or
\* not started: its next resumption requests from upstream
AtYield == opPc \in {"start", "yielded", "yieldedFlag"}

Started == {i \in EvIters : evIt[i].pc \notin {"none", "created"}}

\* C28: calling fromEvent, and asking for an iterator, register nothing;
\* every iteration that was started has a Producer of its own, registered
\* exactly once and still registered when the iteration is over; an
\* iteration gets only events emitted after its first pull began.
C28_LazyRegistration ==
  /\ Len(listeners) = Cardinality(Started)
  /\ Len(prods) = Cardinality(Started)
  /\ \A i \in Started :
       /\ Cardinality({k \in 1..Len(listeners) : listeners[k] = evIt[i].prod}) = 1
       /\ \A j \in Started : evIt[j].prod = evIt[i].prod => j = i
       /\ \A k \in 1..Len(evIt[i].got) : evIt[i].got[k] > firstPullAt[i]

C28_Witness ==
  /\ emitted = 3
  /\ firstPullAt[1] = 0 /\ evIt[1].pc = "done" /\ evIt[1].got = <<1>>
  /\ firstPullAt[2] = 2 /\ evIt[2].got = <<3>>
  /\ Len(listeners) = 2
====
